---- MODULE Spec2Model ----
(***************************************************************************)
(* A model of the Canvas MCP server (src/src/index.ts): the constructor,   *)
(* the upstream client makeCanvasRequest, the call-tool dispatcher and the *)
(* six query handlers.  A handler is cut at its awaits: the code between   *)
(* two awaits runs without interleaving (one JavaScript job), so it is one *)
(* action.                                                                 *)
(***************************************************************************)
EXTENDS Integers, Sequences, FiniteSets, TLC

VARIABLES
    env,        \* process.env.CANVAS_ACCESS_TOKEN: [has, v]
    cpc,        \* position of the program in the constructor / run()
    config,     \* this.config: [set, accessToken]
    registered, \* request schemas that have a handler registered on this.server
    canvas,     \* the upstream Canvas instance: the active courses and their data
    tool,       \* request.params.name of the invocation in progress
    args,       \* request.params.arguments of the invocation in progress
    hpc,        \* position of the handler: the await it is suspended at
    reqs,       \* the upstream requests issued by this invocation, in issue order
    courses,    \* local `courses` of the handler
    k,          \* index of the course the for-of loop is at
    acc,        \* local accumulator (assignments / upcomingAssignments / grades / allAssignments)
    now,        \* local `now` (new Date()) of the handler
    thrown,     \* the error caught by the dispatcher's catch block
    outcome     \* what the caller receives: a result or a protocol error

vars == <<env, cpc, config, registered, canvas, tool, args, hpc, reqs,
          courses, k, acc, now, thrown, outcome>>

invVars == <<tool, args, hpc, reqs, courses, k, acc, now, thrown, outcome>>

-----------------------------------------------------------------------------
(* Bounds of the model *)

MaxCourses == 2
MaxTotal == 2
MaxProgress == 40

-----------------------------------------------------------------------------
(* Values *)

Absent == [has |-> FALSE, v |-> 0]
Num(n) == [has |-> TRUE, v |-> n]

\* JavaScript truthiness of an optional number: undefined and 0 are falsy.
Truthy(x) == x.has /\ x.v # 0

\* An optional string, as a sequence of characters.
NoStr == [has |-> FALSE, s |-> <<>>]
Str(s) == [has |-> TRUE, s |-> s]

\* A due_at value of the upstream JSON: null, a string Date cannot parse, or
\* an ISO timestamp (t: milliseconds).
DueNull == [d |-> "null", t |-> 0]
DueBad == [d |-> "bad", t |-> 0]
DueAt(t) == [d |-> "iso", t |-> t]

DayMs == 24 * 60 * 60 * 1000

DefaultDaysAhead == 7

RegisteredTools == {"get_courses", "get_assignments", "get_upcoming_assignments",
                    "get_grades", "get_course_progress", "search_assignments"}

NoErr == [type |-> "none", code |-> "none", msg |-> <<>>]
JsError(type, msg) == [type |-> type, code |-> "none", msg |-> msg]
McpError(code, msg) == [type |-> "McpError", code |-> code, msg |-> msg]

NoOutcome == [kind |-> "none", err |-> NoErr, items |-> <<>>]

NoArgs == [course_id |-> Absent, include_completed |-> Absent,
           days_ahead |-> Absent, query |-> NoStr]

-----------------------------------------------------------------------------
(* Sequence helpers *)

IsSubSeq(small, big) ==
    \E i \in 0..(Len(big) - Len(small)) :
        \A j \in 1..Len(small) : big[i + j] = small[j]

-----------------------------------------------------------------------------
(* Strings: String.prototype.toLowerCase and String.prototype.includes.    *)
(* A string is a sequence of characters of a small alphabet: two Latin     *)
(* letters in both cases, and the Greek sigma in its three forms (capital, *)
(* small, small final).  toLowerCase applies the context-sensitive         *)
(* Final_Sigma rule of the Unicode default case conversion: a capital      *)
(* sigma that ends a word becomes the final form.  Every character of the  *)
(* alphabet is a cased letter.                                             *)

Lower(c) == CASE c = "A" -> "a"
              [] c = "B" -> "b"
              [] c = "SIGMA" -> "sigma"
              [] OTHER -> c

FinalSigma(s, i) == i > 1 /\ i = Len(s)

toLowerCase(s) ==
    [i \in DOMAIN s |->
        IF s[i] = "SIGMA" /\ FinalSigma(s, i) THEN "fsigma" ELSE Lower(s[i])]

includes(s, q) ==
    \E i \in 0..(Len(s) - Len(q)) : SubSeq(s, i + 1, i + Len(q)) = q

-----------------------------------------------------------------------------
(* Dates: new Date(due_at).getTime() is NaN for a string Date cannot parse, *)
(* and every comparison with NaN is false.                                  *)

GetTime(due) == [nan |-> due.d # "iso", t |-> due.t]

DateGe(x, t) == ~x.nan /\ x.t >= t
DateLe(x, t) == ~x.nan /\ x.t <= t

\* !assignment.due_at
DueMissing(a) == a.due_at.d = "null"

\* Math.ceil(x / DayMs) for an integer x >= 0
CeilDays(x) == (x + DayMs - 1) \div DayMs

-----------------------------------------------------------------------------
(* Numbers: Math.round((completed / total) * 100) in IEEE-754 binary64.    *)
(* A natural number is a sequence of bits, least significant first.  The   *)
(* quotient is rounded to 53 significant bits (ties to even), so is the    *)
(* product with 100, and Math.round rounds the result half up.             *)

RECURSIVE NormShift(_, _)
NormShift(c, t) == IF c >= t THEN 0 ELSE 1 + NormShift(2 * c, t)

RECURSIVE Pow2(_)
Pow2(n) == IF n = 0 THEN 1 ELSE 2 * Pow2(n - 1)

\* Long division: the next n bits of r / t (r < t) put before `done`, and
\* the remainder.
RECURSIVE FracBits(_, _, _, _)
FracBits(r, t, n, done) ==
    IF n = 0 THEN [bits |-> done, rem |-> r]
    ELSE LET b == IF 2 * r >= t THEN 1 ELSE 0
         IN FracBits(2 * r - b * t, t, n - 1, <<b>> \o done)

RECURSIVE Inc(_)
Inc(bits) == IF bits = <<>> THEN <<1>>
             ELSE IF Head(bits) = 0 THEN <<1>> \o Tail(bits)
             ELSE <<0>> \o Inc(Tail(bits))

RECURSIVE AddC(_, _, _)
AddC(x, y, cin) ==
    IF x = <<>> /\ y = <<>> THEN (IF cin = 1 THEN <<1>> ELSE <<>>)
    ELSE LET a == IF x = <<>> THEN 0 ELSE Head(x)
             b == IF y = <<>> THEN 0 ELSE Head(y)
             s == a + b + cin
         IN <<s % 2>> \o AddC(IF x = <<>> THEN <<>> ELSE Tail(x),
                              IF y = <<>> THEN <<>> ELSE Tail(y), s \div 2)

ShiftL(x, n) == [i \in 1..n |-> 0] \o x

RECURSIVE ToInt(_)
ToInt(bits) == IF bits = <<>> THEN 0 ELSE Head(bits) + 2 * ToInt(Tail(bits))

\* Round a bit string whose top bit is 1 to 53 significant bits, ties to
\* even: the kept bits and the number of bits dropped.
RoundTo53(p) ==
    LET d == Len(p) - 53
    IN IF d <= 0 THEN [m |-> p, d |-> 0]
       ELSE LET kept == SubSeq(p, d + 1, Len(p))
                half == p[d]
                sticky == \E i \in 1..(d - 1) : p[i] = 1
                up == half = 1 /\ (sticky \/ kept[1] = 1)
            IN [m |-> IF up THEN Inc(kept) ELSE kept, d |-> d]

\* The binary64 quotient c / t for 1 <= c <= t: m * 2^(-52 - s).
Div64(c, t) ==
    LET s == NormShift(c, t)
        q == FracBits(c * Pow2(s) - t, t, 52, <<>>)
        m == q.bits \o <<1>>
        up == 2 * q.rem > t \/ (2 * q.rem = t /\ m[1] = 1)
    IN [m |-> IF up THEN Inc(m) ELSE m, s |-> s]

Mul100(m) == AddC(AddC(ShiftL(m, 6), ShiftL(m, 5), 0), ShiftL(m, 2), 0)

\* Math.round((c / t) * 100) for 0 <= c <= t, t > 0.
MathRoundPercent(c, t) ==
    IF c = 0 THEN 0
    ELSE LET q == Div64(c, t)
             p == RoundTo53(Mul100(q.m))
             f == 52 + q.s - p.d
             n == Len(p.m)
             int == IF f >= n THEN 0 ELSE ToInt(SubSeq(p.m, f + 1, n))
             frac == IF f >= 1 /\ f <= n THEN p.m[f] ELSE 0
         IN int + frac

\* completion_rate (line 407): 0 / 0 is NaN, and Math.round(NaN) is NaN.
CompletionRate(c, t) ==
    IF t = 0 THEN [nan |-> TRUE, v |-> 0]
    ELSE [nan |-> FALSE, v |-> MathRoundPercent(c, t)]

-----------------------------------------------------------------------------
(* The upstream Canvas instance.  canvas is the list of active courses,    *)
(* each with its enrollments (the grades of `self`) and its assignments.   *)
(* An endpoint is [kind, id]; its JSON body is read off canvas.            *)

Ep(kind, id) == [kind |-> kind, id |-> id]

HasCourse(id) == id.has /\ \E i \in DOMAIN canvas : canvas[i].id = id.v
CourseOf(id) == canvas[CHOOSE i \in DOMAIN canvas : canvas[i].id = id.v]

\* GET /courses?enrollment_state=active
CourseList == [i \in DOMAIN canvas |-> [id |-> canvas[i].id, name |-> canvas[i].name]]
\* GET /courses/:id/assignments
AssignmentsOf(id) == IF HasCourse(id) THEN CourseOf(id).asg ELSE <<>>
\* GET /courses/:id/enrollments?user_id=self
EnrollmentsOf(id) == IF HasCourse(id) THEN CourseOf(id).enr ELSE <<>>

\* enrollments[0]?.grades?.current_grade
CurrentGrade(enr) == IF Len(enr) > 0 THEN enr[1] ELSE "undefined"

-----------------------------------------------------------------------------
(* makeCanvasRequest (lines 80-102) *)

Request(ep) == [ep |-> ep, st |-> "pending", http |-> 0, val |-> "none"]

\* Mutation: every response that arrives counts as successful.
ResponseOk_AnyStatus(status) == status >= 200

\* response.ok
ResponseOk(status) == status >= 200 /\ status <= 299

\* error instanceof Error ? error.message : 'Unknown error'
MessageOf(error) == IF error.type = "value" THEN <<"Unknown error">> ELSE error.msg

\* the catch block of makeCanvasRequest (lines 96-101)
MakeRequestCatch(error) ==
    McpError("InternalError", <<"Failed to fetch from Canvas: ">> \o MessageOf(error))

\* Mutation: the catch block wraps protocol errors too.
DispatchCatch_AlwaysWrap(name, error) ==
    McpError("InternalError", <<"Error executing ", name, ": ">> \o MessageOf(error))

\* the catch block of the call-tool handler (lines 222-230)
DispatchCatch(name, error) ==
    IF error.type = "McpError" THEN error
    ELSE McpError("InternalError", <<"Error executing ", name, ": ">> \o MessageOf(error))

\* Mutation: the switch has no default branch and falls into the first case.
SwitchCase_NoDefault(name) == IF name \in RegisteredTools THEN name ELSE "get_courses"

\* the switch of the call-tool handler (lines 197-221)
SwitchCase(name) == IF name \in RegisteredTools THEN name ELSE "default"

NullTypeError == JsError("TypeError", <<"Cannot read properties of null">>)
UndefinedTypeError == JsError("TypeError", <<"Cannot read properties of undefined">>)

\* Mutation: fulfils with the first request that succeeds.
PromiseAll_FirstFulfilled(rs) ==
    IF \E i \in DOMAIN rs : rs[i].st = "failed" THEN "rejected"
    ELSE IF \E i \in DOMAIN rs : rs[i].st = "ok" THEN "fulfilled"
    ELSE "pending"

\* Promise.all over the requests rs
PromiseAll(rs) ==
    IF \E i \in DOMAIN rs : rs[i].st = "failed" THEN "rejected"
    ELSE IF \A i \in DOMAIN rs : rs[i].st = "ok" THEN "fulfilled"
    ELSE "pending"

\* The handler of tool `name` fails with e: the dispatcher's catch block
\* decides what the caller receives.
ThrowIn(name, e) ==
    /\ thrown' = e
    /\ outcome' = [kind |-> "error", err |-> DispatchCatch(name, e), items |-> <<>>]
    /\ hpc' = "done"

Throw(e) == ThrowIn(tool, e)

\* The handler returns its content.
Return(items) ==
    /\ outcome' = [kind |-> "result", err |-> NoErr, items |-> items]
    /\ hpc' = "done"
    /\ thrown' = thrown

-----------------------------------------------------------------------------
(* The constructor (lines 55-78) and run() (lines 456-460) *)

\* Mutation: only an undefined token counts as missing (never, after || '').
TokenMissing_UndefinedOnly(token) == token = "undefined"

\* !this.config.accessToken
TokenMissing(token) == token = ""

Constructor_Config ==
    /\ cpc = "start"
    /\ config' = [set |-> TRUE,
                  accessToken |-> IF env.has /\ env.v # "" THEN env.v ELSE ""]
    /\ cpc' = "config"
    /\ UNCHANGED <<env, registered, canvas, invVars>>

Constructor_Check ==
    /\ cpc = "config"
    /\ cpc' = IF TokenMissing(config.accessToken) THEN "threw" ELSE "server"
    /\ UNCHANGED <<env, config, registered, canvas, invVars>>

setupToolHandlers ==
    /\ cpc = "server"
    /\ registered' = {"ListToolsRequestSchema", "CallToolRequestSchema"}
    /\ cpc' = "constructed"
    /\ UNCHANGED <<env, config, canvas, invVars>>

run ==
    /\ cpc = "constructed"
    /\ cpc' = "running"
    /\ UNCHANGED <<env, config, registered, canvas, invVars>>

-----------------------------------------------------------------------------
(* The call-tool handler (lines 193-231): the switch, and each handler up  *)
(* to its first await.  fetch() is called synchronously by                 *)
(* makeCanvasRequest, so the requests of the first step are issued here.   *)

frame == <<env, cpc, config, registered, canvas>>

\* (args?.days_ahead as number) || 7   (line 208)
DaysAheadOf(a) == IF Truthy(a.days_ahead) THEN a.days_ahead.v ELSE DefaultDaysAhead

\* includeCompleted: boolean = false   (line 253)
IncludeCompleted(a) == a.include_completed.has /\ a.include_completed.v # 0

\* The three requests of getCourseProgress (lines 381-385)
ProgressRequests(id) ==
    << Request(Ep("course", id)),
       Request(Ep("enrollments", id)),
       Request(Ep("assignments_sub", id)) >>

\* Mutation: the loop issues the requests of all remaining courses at once.
LoopRequests_AllAtOnce(cs, j, kind) ==
    [i \in 1..(Len(cs) - j + 1) |-> Request(Ep(kind, Num(cs[j + i - 1].id)))]

\* The requests the for-of loop issues on entering the iteration of course j
LoopRequests(cs, j, kind) == << Request(Ep(kind, Num(cs[j].id))) >>

CallTool(name, a) ==
    /\ cpc = "running"
    /\ "CallToolRequestSchema" \in registered
    /\ hpc = "idle"
    /\ tool' = name
    /\ args' = a
    /\ LET c == SwitchCase(name)
           listFirst == c \in {"get_courses", "get_upcoming_assignments", "search_assignments"}
                        \/ (c = "get_assignments" /\ ~Truthy(a.course_id))
       IN IF c = "default"
          THEN /\ ThrowIn(name, McpError("MethodNotFound", <<"Unknown tool: ", name>>))
               /\ reqs' = reqs
          ELSE /\ UNCHANGED <<thrown, outcome>>
               /\ IF listFirst
                  THEN reqs' = <<Request(Ep("courses", Absent))>> /\ hpc' = "courses"
                  ELSE IF c = "get_assignments"
                  THEN reqs' = <<Request(Ep("assignments", a.course_id))>> /\ hpc' = "single"
                  ELSE IF c = "get_grades" /\ Truthy(a.course_id)
                  THEN reqs' = <<Request(Ep("enrollments", a.course_id))>> /\ hpc' = "enr"
                  ELSE IF c = "get_grades"
                  THEN reqs' = <<Request(Ep("courses_scores", Absent))>> /\ hpc' = "courses"
                  ELSE reqs' = ProgressRequests(a.course_id) /\ hpc' = "all"
    /\ UNCHANGED <<frame, courses, k, acc, now>>

\* The list-tools handler (lines 105-191): the static list of six tools.
ListTools ==
    /\ cpc = "running"
    /\ "ListToolsRequestSchema" \in registered
    /\ hpc = "idle"
    /\ tool' = "tools/list"
    /\ outcome' = [kind |-> "result", err |-> NoErr,
                   items |-> <<"get_courses", "get_assignments", "get_upcoming_assignments",
                               "get_grades", "get_course_progress", "search_assignments">>]
    /\ hpc' = "done"
    /\ UNCHANGED <<frame, args, reqs, courses, k, acc, now, thrown>>

\* The response is sent; the invocation leaves no state behind.
Reply ==
    /\ hpc = "done"
    /\ tool' = "" /\ args' = NoArgs /\ hpc' = "idle" /\ reqs' = <<>>
    /\ courses' = <<>> /\ k' = 0 /\ acc' = <<>> /\ now' = 0
    /\ thrown' = NoErr /\ outcome' = NoOutcome
    /\ UNCHANGED frame

-----------------------------------------------------------------------------
(* makeCanvasRequest: the two awaits (fetch, response.json) settle.  A     *)
(* rejection reaches the handler awaiting it, and from there the catch     *)
(* block of the dispatcher; a handler that has already completed (a        *)
(* Promise.all rejected earlier) is not affected.                          *)

Rejected(e) ==
    IF hpc \in {"idle", "done"}
    THEN UNCHANGED <<hpc, thrown, outcome>>
    ELSE Throw(e)

\* await fetch(url, ...) settles: rejected (network failure) or a response
\* with an HTTP status (lines 84-93).
FetchSettles(i, rejected, status) ==
    /\ i \in DOMAIN reqs
    /\ reqs[i].st = "pending"
    /\ IF ~rejected /\ ResponseOk(status)
       THEN /\ reqs' = [reqs EXCEPT ![i].st = "body", ![i].http = status]
            /\ UNCHANGED <<hpc, thrown, outcome>>
       ELSE /\ reqs' = [reqs EXCEPT ![i].st = "failed",
                                     ![i].http = IF rejected THEN 0 ELSE status]
            /\ Rejected(MakeRequestCatch(
                  IF rejected THEN JsError("TypeError", <<"fetch failed">>)
                  ELSE JsError("Error", <<"Canvas API error: ", ToString(status)>>)))
    /\ UNCHANGED <<frame, tool, args, courses, k, acc, now>>

\* await response.json() rejects: the body is not JSON (line 95).
JsonRejects(i) ==
    /\ i \in DOMAIN reqs
    /\ reqs[i].st = "body"
    /\ reqs' = [reqs EXCEPT ![i].st = "failed"]
    /\ Rejected(MakeRequestCatch(JsError("SyntaxError", <<"Unexpected token">>)))
    /\ UNCHANGED <<frame, tool, args, courses, k, acc, now>>

\* await response.json() resolves for the request the handler awaits.
Awaited(i) == i = Len(reqs) /\ i > 0 /\ reqs[i].st = "body"
Resolved(i, body) == [reqs EXCEPT ![i].st = "ok", ![i].val = body]

-----------------------------------------------------------------------------
(* getCourses (lines 234-251) *)

getCourses_Resume(i, body) ==
    /\ SwitchCase(tool) = "get_courses" /\ hpc = "courses" /\ Awaited(i)
    /\ reqs' = Resolved(i, body)
    /\ IF body = "null"
       THEN Throw(NullTypeError)
       ELSE Return(CourseList)
    /\ UNCHANGED <<frame, tool, args, courses, k, acc, now>>

-----------------------------------------------------------------------------
(* getAssignments (lines 253-292) *)

WithCourse(a, cname) ==
    [name |-> a.name, due_at |-> a.due_at, sub |-> a.sub, course_name |-> cname]

Tagged(list, cname) == [j \in DOMAIN list |-> WithCourse(list[j], cname)]

\* the filter of lines 268-271
NotPastDue(a, n) == IF DueMissing(a) THEN TRUE ELSE DateGe(GetTime(a.due_at), n)

AssignmentItem(a) == [name |-> a.name, due_date |-> a.due_at, course_name |-> a.course_name]

\* lines 266-291, with `now` read as n when the filter runs
getAssignments_Finish(list, n) ==
    LET Keep(a) == NotPastDue(a, n)
        kept == IF IncludeCompleted(args) THEN list ELSE SelectSeq(list, Keep)
    IN /\ now' = IF IncludeCompleted(args) THEN now ELSE n
       /\ Return([j \in DOMAIN kept |-> AssignmentItem(kept[j])])

getAssignments_Resume(i, body, n) ==
    /\ SwitchCase(tool) = "get_assignments" /\ hpc \in {"single", "courses", "loop"}
    /\ Awaited(i)
    /\ IF body = "null"
       THEN /\ reqs' = Resolved(i, body)
            /\ Throw(NullTypeError)
            /\ UNCHANGED <<courses, k, acc, now>>
       ELSE IF hpc = "single"
       THEN /\ reqs' = Resolved(i, body)
            /\ acc' = Tagged(AssignmentsOf(reqs[i].ep.id), NoStr)
            /\ getAssignments_Finish(acc', n)
            /\ UNCHANGED <<courses, k>>
       ELSE IF hpc = "courses" /\ CourseList = <<>>
       THEN /\ reqs' = Resolved(i, body)
            /\ getAssignments_Finish(<<>>, n)
            /\ UNCHANGED <<courses, k, acc>>
       ELSE IF hpc = "courses"
       THEN /\ courses' = CourseList
            /\ k' = 1
            /\ reqs' = Resolved(i, body) \o LoopRequests(courses', 1, "assignments")
            /\ hpc' = "loop"
            /\ UNCHANGED <<acc, now, thrown, outcome>>
       ELSE /\ acc' = acc \o Tagged(AssignmentsOf(reqs[i].ep.id), Str(courses[k].name))
            /\ courses' = courses
            /\ IF k < Len(courses)
               THEN /\ k' = k + 1
                    /\ reqs' = Resolved(i, body) \o LoopRequests(courses, k + 1, "assignments")
                    /\ UNCHANGED <<hpc, now, thrown, outcome>>
               ELSE /\ k' = k
                    /\ reqs' = Resolved(i, body)
                    /\ getAssignments_Finish(acc', n)
    /\ UNCHANGED <<frame, tool, args>>

-----------------------------------------------------------------------------
(* getUpcomingAssignments (lines 294-336) *)

\* the filter of lines 304-308
IsUpcoming(a, n, cutoff) ==
    IF DueMissing(a) THEN FALSE
    ELSE DateGe(GetTime(a.due_at), n) /\ DateLe(GetTime(a.due_at), cutoff)

\* line 297
CutoffDate(n, daysAhead) == n + daysAhead * DayMs

\* lines 310-314
UpcomingEntry(a, cname, n) ==
    [name |-> a.name, due_at |-> a.due_at, course_name |-> cname,
     days_until_due |-> CeilDays(GetTime(a.due_at).t - n)]

\* the comparator of line 317
CompareDue(a, b) == GetTime(a.due_at).t - GetTime(b.due_at).t

RECURSIVE InsertByDue(_, _)
InsertByDue(x, s) ==
    IF s = <<>> THEN <<x>>
    ELSE IF CompareDue(Head(s), x) <= 0 THEN <<Head(s)>> \o InsertByDue(x, Tail(s))
    ELSE <<x>> \o s

\* Mutation: the list is returned in the order it was collected.
SortByDue_Unsorted(s) == s

\* Array.prototype.sort with CompareDue (stable)
RECURSIVE SortByDue(_)
SortByDue(s) ==
    IF s = <<>> THEN <<>>
    ELSE InsertByDue(s[Len(s)], SortByDue(SubSeq(s, 1, Len(s) - 1)))

UpcomingItem(a) == [name |-> a.name, course |-> a.course_name, due_date |-> a.due_at,
                    days_until_due |-> a.days_until_due]

\* lines 317-335
getUpcomingAssignments_Finish(list) ==
    LET sorted == SortByDue(list)
    IN Return([j \in DOMAIN sorted |-> UpcomingItem(sorted[j])])

getUpcomingAssignments_Resume(i, body, n) ==
    /\ SwitchCase(tool) = "get_upcoming_assignments" /\ hpc \in {"courses", "loop"}
    /\ Awaited(i)
    /\ now' = IF hpc = "courses" THEN n ELSE now
    /\ IF body = "null"
       THEN /\ reqs' = Resolved(i, body)
            /\ Throw(NullTypeError)
            /\ UNCHANGED <<courses, k, acc>>
       ELSE IF hpc = "courses" /\ CourseList = <<>>
       THEN /\ reqs' = Resolved(i, body)
            /\ getUpcomingAssignments_Finish(<<>>)
            /\ UNCHANGED <<courses, k, acc>>
       ELSE IF hpc = "courses"
       THEN /\ courses' = CourseList
            /\ k' = 1
            /\ reqs' = Resolved(i, body) \o LoopRequests(courses', 1, "assignments")
            /\ hpc' = "loop"
            /\ UNCHANGED <<acc, thrown, outcome>>
       ELSE LET Up(a) == IsUpcoming(a, now, CutoffDate(now, DaysAheadOf(args)))
                upcoming == SelectSeq(AssignmentsOf(reqs[i].ep.id), Up)
            IN /\ acc' = acc \o [j \in DOMAIN upcoming |->
                                    UpcomingEntry(upcoming[j], courses[k].name, now)]
               /\ courses' = courses
               /\ IF k < Len(courses)
                  THEN /\ k' = k + 1
                       /\ reqs' = Resolved(i, body)
                                    \o LoopRequests(courses, k + 1, "assignments")
                       /\ UNCHANGED <<hpc, thrown, outcome>>
                  ELSE /\ k' = k
                       /\ reqs' = Resolved(i, body)
                       /\ getUpcomingAssignments_Finish(acc')
    /\ UNCHANGED <<frame, tool, args>>

-----------------------------------------------------------------------------
(* getGrades (lines 338-378) *)

GradedAssignments(list) == [j \in DOMAIN list |-> [name |-> list[j].name, sub |-> list[j].sub]]

\* lines 345-355
CourseGrade(id, enr, list) ==
    [course_id |-> id.v, current_grade |-> CurrentGrade(enr),
     assignments |-> GradedAssignments(list)]

\* lines 361-366
CourseSummary(c, enr) ==
    [course_name |-> c.name, course_id |-> c.id, current_grade |-> CurrentGrade(enr)]

getGrades_Resume(i, body) ==
    /\ SwitchCase(tool) = "get_grades" /\ hpc \in {"enr", "asg", "courses", "loop"}
    /\ Awaited(i)
    /\ IF hpc = "enr"
       THEN /\ reqs' = Resolved(i, body)
                         \o <<Request(Ep("assignments_sub", args.course_id))>>
            /\ hpc' = "asg"
            /\ UNCHANGED <<courses, k, acc, thrown, outcome>>
       ELSE IF hpc = "asg"
       THEN /\ reqs' = Resolved(i, body)
            /\ IF reqs[1].val = "null" \/ body = "null"
               THEN Throw(NullTypeError) /\ acc' = acc
               ELSE /\ acc' = <<CourseGrade(args.course_id,
                                            EnrollmentsOf(args.course_id),
                                            AssignmentsOf(args.course_id))>>
                    /\ Return(acc')
            /\ UNCHANGED <<courses, k>>
       ELSE IF body = "null"
       THEN /\ reqs' = Resolved(i, body)
            /\ Throw(NullTypeError)
            /\ UNCHANGED <<courses, k, acc>>
       ELSE IF hpc = "courses" /\ CourseList = <<>>
       THEN /\ reqs' = Resolved(i, body)
            /\ Return(<<>>)
            /\ UNCHANGED <<courses, k, acc>>
       ELSE IF hpc = "courses"
       THEN /\ courses' = CourseList
            /\ k' = 1
            /\ reqs' = Resolved(i, body) \o LoopRequests(courses', 1, "enrollments")
            /\ hpc' = "loop"
            /\ UNCHANGED <<acc, thrown, outcome>>
       ELSE /\ acc' = Append(acc, CourseSummary(courses[k], EnrollmentsOf(reqs[i].ep.id)))
            /\ courses' = courses
            /\ IF k < Len(courses)
               THEN /\ k' = k + 1
                    /\ reqs' = Resolved(i, body) \o LoopRequests(courses, k + 1, "enrollments")
                    /\ UNCHANGED <<hpc, thrown, outcome>>
               ELSE /\ k' = k
                    /\ reqs' = Resolved(i, body)
                    /\ Return(acc')
    /\ UNCHANGED <<frame, tool, args, now>>

-----------------------------------------------------------------------------
(* getCourseProgress (lines 380-418) *)

\* a.submission && a.submission.submitted_at   (line 387)
IsCompleted(a) == a.sub # "none" /\ a.sub = "submitted"
\* !a.submission || !a.submission.submitted_at   (line 388)
IsPending(a) == a.sub = "none" \/ a.sub # "submitted"

\* lines 387-414
Progress(list) ==
    LET completed == SelectSeq(list, IsCompleted)
        pending == SelectSeq(list, IsPending)
    IN [total_assignments |-> Len(list),
        completed_assignments |-> Len(completed),
        pending_assignments |-> Len(pending),
        completion_rate |-> CompletionRate(Len(completed), Len(list)),
        pending |-> [j \in DOMAIN pending |-> pending[j].name]]

\* A request of Promise.all resolves; the handler resumes once Promise.all
\* has fulfilled.
getCourseProgress_Resume(i, body) ==
    /\ SwitchCase(tool) = "get_course_progress" /\ hpc \in {"all", "done"}
    /\ i \in DOMAIN reqs /\ reqs[i].st = "body"
    /\ reqs' = Resolved(i, body)
    /\ IF hpc = "all" /\ PromiseAll(reqs') = "fulfilled"
       THEN IF \E j \in DOMAIN reqs' : reqs'[j].val = "null"
            THEN Throw(NullTypeError)
            ELSE Return(<<Progress(AssignmentsOf(args.course_id))>>)
       ELSE UNCHANGED <<hpc, thrown, outcome>>
    /\ UNCHANGED <<frame, tool, args, courses, k, acc, now>>

-----------------------------------------------------------------------------
(* searchAssignments (lines 420-454) *)

\* the filter of lines 432-435
Matches(a, q) ==
    \/ includes(toLowerCase(a.name), toLowerCase(q))
    \/ includes(toLowerCase(a.course_name.s), toLowerCase(q))

SearchItem(a) == [name |-> a.name, course |-> a.course_name.s, due_date |-> a.due_at]

\* lines 432-453; query.toLowerCase() throws for an undefined query as soon
\* as the filter callback runs
searchAssignments_Finish(list) ==
    IF list # <<>> /\ ~args.query.has
    THEN Throw(UndefinedTypeError)
    ELSE LET Hit(a) == Matches(a, args.query.s)
             matching == SelectSeq(list, Hit)
         IN Return([j \in DOMAIN matching |-> SearchItem(matching[j])])

searchAssignments_Resume(i, body) ==
    /\ SwitchCase(tool) = "search_assignments" /\ hpc \in {"courses", "loop"}
    /\ Awaited(i)
    /\ IF body = "null"
       THEN /\ reqs' = Resolved(i, body)
            /\ Throw(NullTypeError)
            /\ UNCHANGED <<courses, k, acc>>
       ELSE IF hpc = "courses" /\ CourseList = <<>>
       THEN /\ reqs' = Resolved(i, body)
            /\ searchAssignments_Finish(<<>>)
            /\ UNCHANGED <<courses, k, acc>>
       ELSE IF hpc = "courses"
       THEN /\ courses' = CourseList
            /\ k' = 1
            /\ reqs' = Resolved(i, body) \o LoopRequests(courses', 1, "assignments")
            /\ hpc' = "loop"
            /\ UNCHANGED <<acc, thrown, outcome>>
       ELSE /\ acc' = acc \o Tagged(AssignmentsOf(reqs[i].ep.id), Str(courses[k].name))
            /\ courses' = courses
            /\ IF k < Len(courses)
               THEN /\ k' = k + 1
                    /\ reqs' = Resolved(i, body) \o LoopRequests(courses, k + 1, "assignments")
                    /\ UNCHANGED <<hpc, thrown, outcome>>
               ELSE /\ k' = k
                    /\ reqs' = Resolved(i, body)
                    /\ searchAssignments_Finish(acc')
    /\ UNCHANGED <<frame, tool, args, now>>

-----------------------------------------------------------------------------
(* Inputs: the upstream instances, the arguments, the outcomes of a        *)
(* request and the clock readings the model draws from.                    *)

RECURSIVE SumTo(_, _)
SumTo(l, i) == IF i = 0 THEN 0 ELSE l[i] + SumTo(l, i - 1)

\* the numbers of assignments of at most MaxCourses courses, MaxTotal in all
LenTuples ==
    UNION {{l \in [1..m -> 0..MaxTotal] : SumTo(l, m) <= MaxTotal} : m \in 0..MaxCourses}

MkWorld(l, flat, nm, en) ==
    [i \in 1..Len(l) |->
        [id |-> i, name |-> nm[i], enr |-> en[i],
         asg |-> SubSeq(flat, SumTo(l, i - 1) + 1, SumTo(l, i))]]

Worlds(names, enrs, pool) ==
    UNION {{MkWorld(l, f, nm, en) : f \in [1..SumTo(l, Len(l)) -> pool],
                                    nm \in [1..Len(l) -> names],
                                    en \in [1..Len(l) -> enrs]} : l \in LenTuples}

Assignment(name, due, sub) == [name |-> name, due_at |-> due, sub |-> sub]

MainWorlds ==
    Worlds({<<"a">>}, {<<"B+">>},
           {Assignment(<<"a">>, DueAt(11), "submitted"),
            Assignment(<<"B">>, DueNull, "none")})

UpcomingWorlds ==
    Worlds({<<"a">>}, {<<"B+">>},
           {Assignment(<<"a">>, due, "none") :
              due \in {DueNull, DueBad, DueAt(10), DueAt(10 + DayMs),
                       DueAt(11 + DayMs), DueAt(11 + 7 * DayMs)}})

SearchWorlds ==
    Worlds({<<"b", "a">>, <<"B">>}, {<<"B+">>},
           {Assignment(name, DueNull, "none") :
              name \in {<<"a">>, <<"A", "b">>, <<"b", "B">>, <<"A", "SIGMA">>}})

\* c submitted assignments followed by p assignments without a submission
Block(c, p) ==
    [j \in 1..(c + p) |->
        Assignment(<<"a">>, DueNull, IF j <= c THEN "submitted" ELSE "none")]

ProgressLists ==
    (UNION {[1..m -> {Assignment(<<"a">>, DueNull, sub) :
                        sub \in {"none", "draft", "submitted"}}] : m \in 0..2})
    \cup {Block(x[1], x[2]) :
            x \in {y \in (0..MaxProgress) \X (0..MaxProgress) : y[1] + y[2] <= MaxProgress}}

ProgressWorlds ==
    {<<[id |-> 1, name |-> <<"a">>, enr |-> <<"B+">>, asg |-> list]>> : list \in ProgressLists}

ToolNames == RegisteredTools \cup {"delete_course", "GET_COURSES"}

CourseIdArgs == {Absent, Num(0), Num(1)}
DaysArgs == {Absent, Num(0), Num(1), Num(-1)}
Queries == {NoStr, Str(<<>>), Str(<<"a">>), Str(<<"A", "B">>), Str(<<"SIGMA">>), Str(<<"sigma">>)}

MainArgs(name) ==
    CASE name \in {"get_assignments"} ->
           {[NoArgs EXCEPT !.course_id = c, !.include_completed = ic] :
              c \in CourseIdArgs, ic \in {Absent, Num(1)}}
      [] name \in {"get_upcoming_assignments"} ->
           {[NoArgs EXCEPT !.days_ahead = d] : d \in {Absent, Num(1)}}
      [] name \in {"get_grades"} ->
           {[NoArgs EXCEPT !.course_id = c] : c \in CourseIdArgs}
      [] name \in {"get_course_progress"} ->
           {[NoArgs EXCEPT !.course_id = c] : c \in {Absent, Num(1)}}
      [] name \in {"search_assignments"} ->
           {[NoArgs EXCEPT !.query = q] : q \in {NoStr, Str(<<"a">>)}}
      [] OTHER -> {NoArgs, [NoArgs EXCEPT !.course_id = Num(1)]}

HttpStatuses == {200, 404}
Bodies == {"data", "null"}
NowSet == {10, 11}

-----------------------------------------------------------------------------
(* Specifications *)

Idle ==
    /\ tool = "" /\ args = NoArgs /\ hpc = "idle" /\ reqs = <<>>
    /\ courses = <<>> /\ k = 0 /\ acc = <<>> /\ now = 0
    /\ thrown = NoErr /\ outcome = NoOutcome

\* The process starts: nothing is constructed yet.
Init ==
    /\ env \in {[has |-> FALSE, v |-> ""], [has |-> TRUE, v |-> ""],
                [has |-> TRUE, v |-> "token"]}
    /\ cpc = "start"
    /\ config = [set |-> FALSE, accessToken |-> ""]
    /\ registered = {}
    /\ canvas \in MainWorlds
    /\ Idle

\* The server is constructed with a token and connected.
Running(worlds) ==
    /\ env = [has |-> TRUE, v |-> "token"]
    /\ cpc = "running"
    /\ config = [set |-> TRUE, accessToken |-> "token"]
    /\ registered = {"ListToolsRequestSchema", "CallToolRequestSchema"}
    /\ canvas \in worlds
    /\ Idle

Transport ==
    \/ \E i \in DOMAIN reqs, rejected \in BOOLEAN, status \in HttpStatuses :
          FetchSettles(i, rejected, status)
    \/ \E i \in DOMAIN reqs : JsonRejects(i)

Next ==
    \/ Constructor_Config
    \/ Constructor_Check
    \/ setupToolHandlers
    \/ run
    \/ ListTools
    \/ \E name \in ToolNames : \E a \in MainArgs(name) : CallTool(name, a)
    \/ Transport
    \/ \E i \in DOMAIN reqs, body \in Bodies : getCourses_Resume(i, body)
    \/ \E i \in DOMAIN reqs, body \in Bodies, n \in NowSet : getAssignments_Resume(i, body, n)
    \/ \E i \in DOMAIN reqs, body \in Bodies, n \in NowSet :
          getUpcomingAssignments_Resume(i, body, n)
    \/ \E i \in DOMAIN reqs, body \in Bodies : getGrades_Resume(i, body)
    \/ \E i \in DOMAIN reqs, body \in Bodies : getCourseProgress_Resume(i, body)
    \/ \E i \in DOMAIN reqs, body \in Bodies : searchAssignments_Resume(i, body)
    \/ Reply

Spec == Init /\ [][Next]_vars

InitUpcoming == Running(UpcomingWorlds)

NextUpcoming ==
    \/ \E d \in DaysArgs :
          CallTool("get_upcoming_assignments", [NoArgs EXCEPT !.days_ahead = d])
    \/ Transport
    \/ \E i \in DOMAIN reqs, body \in Bodies, n \in NowSet :
          getUpcomingAssignments_Resume(i, body, n)
    \/ Reply

SpecUpcoming == InitUpcoming /\ [][NextUpcoming]_vars

InitSearch == Running(SearchWorlds)

NextSearch ==
    \/ \E q \in Queries : CallTool("search_assignments", [NoArgs EXCEPT !.query = q])
    \/ Transport
    \/ \E i \in DOMAIN reqs, body \in Bodies : searchAssignments_Resume(i, body)
    \/ Reply

SpecSearch == InitSearch /\ [][NextSearch]_vars

InitProgress == Running(ProgressWorlds)

NextProgress ==
    \/ CallTool("get_course_progress", [NoArgs EXCEPT !.course_id = Num(1)])
    \/ Transport
    \/ \E i \in DOMAIN reqs, body \in Bodies : getCourseProgress_Resume(i, body)
    \/ Reply

SpecProgress == InitProgress /\ [][NextProgress]_vars

-----------------------------------------------------------------------------
(* Properties *)

Outstanding == {i \in DOMAIN reqs : reqs[i].st \in {"pending", "body"}}

\* A request has failed: the network failed, the status was not successful,
\* or the body could not be read.
Failed(r) == r.st = "failed" \/ (r.http # 0 /\ ~(r.http >= 200 /\ r.http <= 299))
AnyFailed == \E i \in DOMAIN reqs : Failed(reqs[i])

\* C1: a call-tool request whose name is not one of the six registered tools
\* ends with the MethodNotFound error, not rewrapped as an internal error,
\* and issues no upstream request, whatever its arguments.
C1_UnknownToolNotFound ==
    (hpc # "idle" /\ tool \notin RegisteredTools /\ tool # "tools/list") =>
        /\ hpc = "done"
        /\ outcome.kind = "error"
        /\ outcome.err.type = "McpError"
        /\ outcome.err.code = "MethodNotFound"
        /\ outcome.err.msg = <<"Unknown tool: ", tool>>
        /\ reqs = <<>>

C1_Witness ==
    /\ tool = "delete_course" /\ args.course_id = Num(1)
    /\ outcome.kind = "error" /\ outcome.err.code = "MethodNotFound"

\* C4: once an upstream request of an invocation has failed, the invocation
\* has ended with an error (never with a result), and no further upstream
\* request is issued by it.
C4_FailureSurfacedNoRetry ==
    [][ /\ AnyFailed' => (hpc' = "done" /\ outcome'.kind = "error")
        /\ AnyFailed => /\ Len(reqs') <= Len(reqs)
                        /\ \A i \in DOMAIN reqs' : reqs'[i].st = "pending" =>
                                                     reqs[i].st = "pending" ]_vars

C4_Witness ==
    /\ \E i \in DOMAIN reqs : reqs[i].st = "ok"
    /\ \E i \in DOMAIN reqs : reqs[i].st = "failed" /\ reqs[i].http = 404
    /\ outcome.kind = "error"

\* C5: when the handler of a registered tool fails with an error that is not
\* a protocol error, the caller receives an InternalError whose message
\* contains the original message; when it fails with a protocol error, the
\* caller receives that error, code and message unchanged.
C5_HandlerErrorWrapping ==
    (tool \in RegisteredTools /\ outcome.kind = "error") =>
        IF thrown.type = "McpError"
        THEN outcome.err = thrown
        ELSE /\ thrown.type # "none"
             /\ outcome.err.type = "McpError"
             /\ outcome.err.code = "InternalError"
             /\ IsSubSeq(thrown.msg, outcome.err.msg)

C5_Witness ==
    /\ tool = "search_assignments" /\ outcome.kind = "error"
    /\ thrown.type = "TypeError"
    /\ outcome.err.code = "InternalError"

\* C6: during an invocation of get_assignments, get_upcoming_assignments,
\* get_grades or search_assignments at most one upstream request is
\* outstanding, every earlier request has been answered, and the per-course
\* requests follow the order of the course list returned upstream.
C6_SequentialLoop ==
    (tool \in {"get_assignments", "get_upcoming_assignments", "get_grades",
               "search_assignments"}) =>
        /\ Cardinality(Outstanding) <= 1
        /\ \A i \in DOMAIN reqs : i < Len(reqs) => reqs[i].st = "ok"
        /\ (reqs # <<>> /\ reqs[1].ep.kind \in {"courses", "courses_scores"}) =>
              /\ Len(reqs) - 1 <= Len(canvas)
              /\ \A j \in 1..(Len(reqs) - 1) :
                    reqs[j + 1].ep.id = Num(canvas[j].id)

C6_Witness ==
    /\ tool = "get_grades"
    /\ Len(reqs) = 3
    /\ reqs[2].st = "ok" /\ reqs[3].st = "pending"

\* C7 as stated: a get_course_progress invocation completes, with a result or
\* with an error, only after all three requests have completed.
C7_CompletesAfterAllThree ==
    (tool = "get_course_progress" /\ hpc = "done") =>
        \A i \in DOMAIN reqs : reqs[i].st \in {"ok", "failed"}

\* C7 amended: a get_course_progress invocation has issued its three
\* requests before any response is awaited; it completes with a result only
\* after all three requests have succeeded; it completes with an error as
\* soon as one of them has failed, whether or not the others have completed.
C7_AllIssuedResultAfterAll ==
    (tool = "get_course_progress" /\ hpc # "idle") =>
        /\ Len(reqs) = 3
        /\ outcome.kind = "result" => \A i \in DOMAIN reqs : reqs[i].st = "ok"
        /\ hpc = "all" => (outcome.kind = "none" /\ ~AnyFailed)
        /\ AnyFailed => (hpc = "done" /\ outcome.kind = "error")

C7_Witness ==
    /\ tool = "get_course_progress" /\ hpc = "done" /\ outcome.kind = "error"
    /\ reqs[2].st = "failed"
    /\ reqs[1].st = "pending" /\ reqs[3].st = "body"

\* C8: with no access token configured (unset or empty) construction fails
\* with the configuration error before any handler is registered and before
\* any upstream request; with a non-empty token it does not fail.
C8_MissingTokenFailsFirst ==
    /\ (~env.has \/ env.v = "") =>
          /\ cpc \in {"start", "config", "threw"}
          /\ registered = {} /\ reqs = <<>> /\ hpc = "idle"
    /\ (env.has /\ env.v # "") => cpc # "threw"
    /\ cpc = "threw" => (registered = {} /\ reqs = <<>>)

C8_Witness == cpc = "threw" /\ env.has /\ env.v = "" /\ config.set

\* C2: a get_upcoming_assignments result contains no item whose due date is
\* missing, earlier than the invocation's now, or later than now plus
\* days_ahead days, days_ahead being the caller's argument (7 when omitted).
C2_UpcomingWithinWindow ==
    (tool = "get_upcoming_assignments" /\ outcome.kind = "result") =>
        \A j \in DOMAIN outcome.items :
            LET due == outcome.items[j].due_date
                days == IF args.days_ahead.has THEN args.days_ahead.v ELSE 7
            IN /\ due.d = "iso"
               /\ due.t >= now
               /\ due.t <= now + days * DayMs

\* C9: the items of a get_upcoming_assignments result are in non-decreasing
\* order of due date, across all courses.
C9_UpcomingSorted ==
    (tool = "get_upcoming_assignments" /\ outcome.kind = "result") =>
        \A j \in 1..(Len(outcome.items) - 1) :
            /\ outcome.items[j].due_date.d = "iso"
            /\ outcome.items[j + 1].due_date.d = "iso"
            /\ outcome.items[j].due_date.t <= outcome.items[j + 1].due_date.t

C9_Witness ==
    /\ tool = "get_upcoming_assignments" /\ outcome.kind = "result"
    /\ Len(outcome.items) >= 2
    /\ Len(canvas) >= 2
    /\ \E j \in 1..(Len(acc) - 1) : acc[j].due_at.t > acc[j + 1].due_at.t

\* Two characters are equal up to case: the three sigmas are one letter.
Fold(c) == CASE c = "A" -> "a"
             [] c = "B" -> "b"
             [] c \in {"SIGMA", "fsigma"} -> "sigma"
             [] OTHER -> c

CaselessIn(q, s) ==
    \E i \in 0..(Len(s) - Len(q)) : \A j \in 1..Len(q) : Fold(s[i + j]) = Fold(q[j])

RECURSIVE UpstreamItems(_)
UpstreamItems(n) ==
    IF n = 0 THEN <<>>
    ELSE UpstreamItems(n - 1) \o
         [j \in DOMAIN canvas[n].asg |->
            [name |-> canvas[n].asg[j].name, course |-> canvas[n].name,
             due_date |-> canvas[n].asg[j].due_at]]

\* C10: the results of search_assignments with query q are exactly the
\* upstream assignments for which q, compared case-insensitively, is a
\* substring of the assignment's name or of its course's name.
C10_SearchExact ==
    (tool = "search_assignments" /\ outcome.kind = "result" /\ args.query.has) =>
        LET Hit(it) == CaselessIn(args.query.s, it.name)
                       \/ CaselessIn(args.query.s, it.course)
        IN outcome.items = SelectSeq(UpstreamItems(Len(canvas)), Hit)

\* C3: for a get_course_progress result over total > 0 assignments,
\* completion_rate is completed / total * 100 rounded to the nearest integer
\* (halves up), completed being the number of assignments submitted; it is an
\* integer from 0 to 100, and it is undefined (0 / 0) only when total = 0.
C3_CompletionRate ==
    (tool = "get_course_progress" /\ outcome.kind = "result") =>
        LET list == AssignmentsOf(args.course_id)
            t == Len(list)
            c == Cardinality({j \in DOMAIN list : list[j].sub = "submitted"})
            r == outcome.items[1].completion_rate
        IN /\ r.nan <=> t = 0
           /\ t > 0 => /\ r.v \in 0..100
                       /\ 2 * r.v * t - t <= 200 * c
                       /\ 200 * c < 2 * r.v * t + t

====
